---- MODULE Spec2Model ----
(***************************************************************************)
(* Up-and-out barrier call option pricing notebook (BarrierOptions.ipynb). *)
(*                                                                         *)
(* Cell 1 sets the market and option parameters, cell 2 runs the Monte     *)
(* Carlo sweep over the sample sizes, cell 3 evaluates the closed form.    *)
(*                                                                         *)
(* Real numbers are fixed point: rates, times, normal variates and the     *)
(* values of exp, log and the normal CDF are in thousandths (SCALE);       *)
(* share prices and payoffs are in hundredths (CENT).                      *)
(***************************************************************************)
EXTENDS Integers, Sequences, FiniteSets, TLC

SCALE == 1000
CENT == 100

\* ---- bounds of the model ------------------------------------------------
SweepPoints == 2      \* sweep points (50 in the notebook: range(1, 51))
BatchUnit == 2        \* paths per sweep index (1000 in the notebook)
StreamPeriod == 4     \* period of the generator's output stream
MaxRuns == 2          \* executions of the simulation cell

\* ---- parameters of cell 1 -----------------------------------------------
r == 80               \* risk-free rate 0.08
S_0 == 100            \* initial share price
seed == 0             \* np.random.seed(0)

KVals == {0, 100}
LVals == {50, 90, 100, 150}
SigmaVals == {300, 400}
TVals == {50, 125, 1000}
ZVals == {-1000, 0, 2000, 4000}   \* values a standard normal draw can take

None == <<>>
Some(v) == <<v>>

VARIABLES
  K, L, T, sigma,         \* option and market parameters (cell 1)
  stream,                 \* output sequence of the generator for the seed
  rng,                    \* state of the process-wide generator
  pc,                     \* simulation cell: idle / loop / done / error
  i,                      \* loop variable of the sweep
  months, t, Z_s, S_T, call_val, call_est, call_std,
  S_t,                    \* prices of the last batch (local of option_payoff)
  nwrites, batchN,        \* history: writes per slot, batch size per slot
  drawn,                  \* history: variates drawn in the current execution
  Z_pos, segs,            \* history: stream position of each cell of Z_s,
                          \*   stream segment consumed by each sweep point
  runs, prev,             \* history: executions, results of the previous one
  an_pc, p1, p2, p3, p4, analytical_callprice

mcvars == <<stream, rng, pc, i, months, t, Z_s, S_T, call_val, call_est,
            call_std, S_t, nwrites, batchN, drawn, Z_pos, segs, runs, prev>>
anvars == <<an_pc, p1, p2, p3, p4, analytical_callprice>>
params == <<K, L, T, sigma>>
vars == <<params, mcvars, anvars>>

\* ---- arithmetic ---------------------------------------------------------
Max(a, b) == IF a >= b THEN a ELSE b
Abs(a) == IF a >= 0 THEN a ELSE -a
ToInt(b) == IF b THEN 1 ELSE 0

RECURSIVE SqrtSearch(_, _, _)
SqrtSearch(n, lo, hi) ==
  IF lo >= hi THEN lo
  ELSE LET mid == (lo + hi + 1) \div 2
       IN IF mid * mid <= n THEN SqrtSearch(n, mid, hi)
          ELSE SqrtSearch(n, lo, mid - 1)

\* floor of the square root of a natural number
ISqrt(n) == SqrtSearch(n, 0, 46340)

\* largest fixed-point argument of the tabulated functions (4.0)
ArgMax == 4 * SCALE

\* np.sqrt on a fixed-point value, tabulated once over its arguments
SqrtTable == [x \in 0..ArgMax |-> ISqrt(x * SCALE)]

Sqrt(x) == IF x <= ArgMax THEN SqrtTable[x] ELSE ISqrt(x * SCALE)

RECURSIVE ExpSeries(_, _, _, _)
ExpSeries(x, n, term, acc) ==
  IF term = 0 THEN acc
  ELSE LET nxt == (term * x) \div (n * SCALE)
       IN ExpSeries(x, n + 1, nxt, acc + nxt)

RECURSIVE ExpPos(_)
ExpPos(x) ==
  IF x > SCALE THEN LET h == ExpPos(x \div 2) IN (h * h) \div SCALE
  ELSE ExpSeries(x, 1, SCALE, SCALE)

ExpValue(x) == IF x >= 0 THEN ExpPos(x) ELSE (SCALE * SCALE) \div ExpPos(-x)

\* np.exp on a fixed-point value, tabulated once over its arguments
ExpTable == [x \in (-ArgMax)..ArgMax |-> ExpValue(x)]

Exp(x) == IF Abs(x) <= ArgMax THEN ExpTable[x] ELSE ExpValue(x)

RECURSIVE LnSeries(_, _, _, _)
LnSeries(y2, n, pw, acc) ==
  IF pw = 0 THEN acc
  ELSE LnSeries(y2, n + 2, (pw * y2) \div SCALE, acc + pw \div n)

\* log of q >= 1.0 as 2*atanh((q - 1)/(q + 1))
LnPos(q) ==
  LET y == ((q - SCALE) * SCALE) \div (q + SCALE)
  IN 2 * LnSeries((y * y) \div SCALE, 1, y, 0)

LnValue(q) == IF q >= SCALE THEN LnPos(q) ELSE -LnPos((SCALE * SCALE) \div q)

\* math.log on a positive fixed-point value, tabulated once over its arguments
LnTable == [q \in 1..ArgMax |-> LnValue(q)]

Ln(q) == IF q <= ArgMax THEN LnTable[q] ELSE LnValue(q)

\* norm.cdf for x >= 0: 1 - (1 + c1 x + c2 x^2 + c4 x^4)^(-4) / 2
PhiPos(x) ==
  IF x >= ArgMax THEN SCALE
  ELSE LET x2 == (x * x) \div SCALE
           x4 == (x2 * x2) \div SCALE
           b == SCALE + (197 * x) \div SCALE + (115 * x2) \div SCALE
                      + (20 * x4) \div SCALE
           b2 == (b * b) \div SCALE
           b4 == ((b2 \div 10) * (b2 \div 10)) \div 10
       IN SCALE - ((SCALE * SCALE) \div 2) \div b4

\* norm.cdf on a fixed-point value
Phi(x) == IF x >= 0 THEN PhiPos(x) ELSE SCALE - PhiPos(-x)

\* base ** e for a positive base
Pow(base, e) == Exp((e * Ln(base)) \div SCALE)

\* a / b as a fixed-point value
Ratio(a, b) == (a * SCALE) \div b

RECURSIVE SumSeq(_)
SumSeq(s) == IF s = <<>> THEN 0 ELSE Head(s) + SumSeq(Tail(s))

RECURSIVE MaxSeq(_)
MaxSeq(s) == IF Len(s) = 1 THEN s[1] ELSE Max(Head(s), MaxSeq(Tail(s)))

\* np.mean
Mean(s) == SumSeq(s) \div Len(s)

\* np.std with its default ddof = 0
Std(s) ==
  LET mu == Mean(s)
  IN ISqrt(Mean([p \in 1..Len(s) |-> (s[p] - mu) * (s[p] - mu)]))

\* ---- the random generator ------------------------------------------------
\* variant: the seed call leaves the generator where it was
np_random_seed_kept(state, s) == state

\* np.random.seed: the generator restarts at the head of the seed's stream
np_random_seed(state, s) == [seed |-> s, pos |-> 0]

\* position in the stream of the variate that fills cell (p, c) of an
\* array of m columns drawn from the given generator state
CellPos(state, p, c, m) == state.pos + (p - 1) * m + (c - 1)

\* norm.rvs(size = [n, m]): n*m variates of the stream, row by row
norm_rvs(state, n, m) ==
  [p \in 1..n |-> [c \in 1..m |->
      stream[CellPos(state, p, c, m) % StreamPeriod]]]

\* the stream positions behind the cells of norm.rvs(size = [n, m])
DrawnPositions(state, n, m) ==
  [p \in 1..n |-> [c \in 1..m |-> CellPos(state, p, c, m)]]

\* variant: the generator is put back where it was after the draw
Advance_stuck(state, n, m) == state

\* the generator state after norm.rvs(size = [n, m])
Advance(state, n, m) == [state EXCEPT !.pos = @ + n * m]

\* ---- cell 2: functions ---------------------------------------------------
\* S_0*exp((r - sigma**2/2)*t + sigma*sqrt(t)*Z) for one cell, in cents
PathPrice(S0, rr, sg, z, tt) ==
  LET drift == rr - ((sg * sg) \div SCALE) \div 2
      x == (drift * tt) \div SCALE + (((sg * Sqrt(tt)) \div SCALE) * z) \div SCALE
  IN (S0 * Exp(x) * CENT) \div SCALE

\* one row of S_t: the prices of one path at the instants of the grid
PriceRow(S0, rr, sg, zrow, tt) ==
  [c \in 1..Len(tt) |-> PathPrice(S0, rr, sg, zrow[c], tt[c])]

PriceMatrix(S0, rr, sg, Z, tt) ==
  [p \in 1..Len(Z) |-> PriceRow(S0, rr, sg, Z[p], tt)]

\* variant: a path whose maximum equals the barrier stays alive
Alive_le(S_m, LL) == ToInt(S_m <= LL * CENT)

\* the comparison S_m < L, as the 0/1 factor of the product
Alive(S_m, LL) == ToInt(S_m < LL * CENT)

\* variant: the initial price at t = 0 takes part in the running maximum
option_payoff_from_S0(S0, rr, sg, Z, tt, LL) ==
  [p \in 1..Len(Z) |->
     LET row == PriceRow(S0, rr, sg, Z[p], tt)
         S_m == Max(S0 * CENT, MaxSeq(row))
         ST == row[Len(row)]
     IN ST * Alive(S_m, LL)]

\* S_T * (S_m < L), row by row
option_payoff(S0, rr, sg, Z, tt, LL) ==
  [p \in 1..Len(Z) |->
     LET row == PriceRow(S0, rr, sg, Z[p], tt)
         S_m == MaxSeq(row)
         ST == row[Len(row)]
     IN ST * Alive(S_m, LL)]

\* variant: the payoff is not clamped at zero
discounted_call_payoff_unclamped(ST, KK, rr, TT) ==
  [p \in 1..Len(ST) |-> (Exp(-((rr * TT) \div SCALE)) * (ST[p] - KK * CENT)) \div SCALE]

\* variant: the payoff of a put, max(K - S_T, 0)
discounted_put_payoff(ST, KK, rr, TT) ==
  [p \in 1..Len(ST) |->
     (Exp(-((rr * TT) \div SCALE)) * Max(KK * CENT - ST[p], 0)) \div SCALE]

\* np.exp(-r*T)*np.maximum(S_T-K, 0)
discounted_call_payoff(ST, KK, rr, TT) ==
  [p \in 1..Len(ST) |->
     (Exp(-((rr * TT) \div SCALE)) * Max(ST[p] - KK * CENT, 0)) \div SCALE]

\* int(T*12)
Months(TT) == (TT * 12) \div SCALE

\* np.arange(1/12, (months + 1)/12, 1/12)
TimeGrid(m) == [c \in 1..m |-> (c * SCALE) \div 12]

\* variant: every sweep point simulates the same number of paths
SampleSize_fixed(idx) == BatchUnit

\* number of paths of sweep point idx
SampleSize(idx) == idx * BatchUnit

\* np.std(call_val)/np.sqrt(N)
StdError(cv, n) == (Std(cv) * SCALE) \div Sqrt(n * SCALE)

\* ---- cell 3: functions ---------------------------------------------------
\* (math.log(s)+(r+sigma**2/2)*tau)/(sigma*np.sqrt(tau))
delta_plus(tau, s, sg, rr) ==
  ((Ln(s) + ((rr + ((sg * sg) \div SCALE) \div 2) * tau) \div SCALE) * SCALE)
    \div ((sg * Sqrt(tau)) \div SCALE)

\* (math.log(s)+(r-sigma**2/2)*tau)/(sigma*np.sqrt(tau))
delta_minus(tau, s, sg, rr) ==
  ((Ln(s) + ((rr - ((sg * sg) \div SCALE) \div 2) * tau) \div SCALE) * SCALE)
    \div ((sg * Sqrt(tau)) \div SCALE)

\* 2*r/sigma**2
TwoROverSigma2(rr, sg) == (2 * rr * SCALE) \div ((sg * sg) \div SCALE)

\* exponent of the power factor of p3: -2*r/sigma**2
Exponent3(rr, sg) == -TwoROverSigma2(rr, sg)

\* variant: the exponent as printed in the notebook's formula
Exponent4_printed(rr, sg) == -TwoROverSigma2(rr, sg) - SCALE

\* exponent of the power factor of p4: 1-2*r/sigma**2
Exponent4(rr, sg) == SCALE - TwoROverSigma2(rr, sg)

\* np.exp(-r*T)
Discount(rr, TT) == Exp(-((rr * TT) \div SCALE))

\* an amount of money times a fixed-point factor, in cents
Times(amount, factor) == (amount * factor) \div SCALE

P1(S0, KK, LL, TT, sg, rr) ==
  Times(S0 * CENT, Phi(delta_plus(TT, Ratio(S0, KK), sg, rr))
                   - Phi(delta_plus(TT, Ratio(S0, LL), sg, rr)))

P2(S0, KK, LL, TT, sg, rr) ==
  Times(Times(KK * CENT, Phi(delta_minus(TT, Ratio(S0, KK), sg, rr))
                         - Phi(delta_minus(TT, Ratio(S0, LL), sg, rr))),
        Discount(rr, TT))

P3(S0, KK, LL, TT, sg, rr) ==
  Times(Times(LL * CENT, Phi(delta_plus(TT, Ratio(LL * LL, KK * S0), sg, rr))
                         - Phi(delta_plus(TT, Ratio(LL, S0), sg, rr))),
        Pow(Ratio(S0, LL), Exponent3(rr, sg)))

P4(S0, KK, LL, TT, sg, rr) ==
  Times(Times(Times(KK * CENT,
                    Phi(delta_minus(TT, Ratio(LL * LL, KK * S0), sg, rr))
                    - Phi(delta_minus(TT, Ratio(LL, S0), sg, rr))),
              Discount(rr, TT)),
        Pow(Ratio(S0, LL), Exponent4(rr, sg)))

\* the cell raises: a division by zero or math.log outside its domain
AnalyticalRaises(S0, KK, LL, TT, sg) ==
  \/ KK = 0 \/ LL = 0 \/ sg = 0
  \/ Ratio(S0, KK) <= 0 \/ Ratio(S0, LL) <= 0
  \/ Ratio(LL * LL, KK * S0) <= 0 \/ Ratio(LL, S0) <= 0

\* ---- initial state: cell 1 has run ---------------------------------------
Init ==
  /\ K \in KVals /\ L \in LVals /\ T \in TVals /\ sigma \in SigmaVals
  /\ stream \in [0..(StreamPeriod - 1) -> ZVals]
  /\ rng = [seed |-> seed, pos |-> 0]
  /\ pc = "idle" /\ i = 0 /\ months = 0
  /\ t = <<>> /\ Z_s = <<>> /\ S_T = <<>> /\ call_val = <<>>
  /\ call_est = <<>> /\ call_std = <<>> /\ S_t = <<>>
  /\ nwrites = <<>> /\ batchN = <<>> /\ drawn = 0
  /\ Z_pos = <<>> /\ segs = <<>>
  /\ runs = 0 /\ prev = [ok |-> FALSE, est |-> <<>>, std |-> <<>>]
  /\ an_pc = "idle" /\ p1 = 0 /\ p2 = 0 /\ p3 = 0 /\ p4 = 0
  /\ analytical_callprice = None

\* ---- cell 2: start (seed, result lists, months) --------------------------
RunCell ==
  /\ pc \in {"idle", "done", "error"}
  /\ runs < MaxRuns
  /\ rng' = np_random_seed(rng, seed)
  /\ call_est' = [n \in 1..SweepPoints |-> None]
  /\ call_std' = [n \in 1..SweepPoints |-> None]
  /\ nwrites' = [n \in 1..SweepPoints |-> 0]
  /\ batchN' = [n \in 1..SweepPoints |-> 0]
  /\ months' = Months(T)
  /\ i' = 0
  /\ drawn' = 0
  /\ segs' = [n \in 1..SweepPoints |-> [from |-> 0, len |-> 0]]
  /\ runs' = runs + 1
  /\ prev' = IF pc = "done"
             THEN [ok |-> TRUE, est |-> call_est, std |-> call_std]
             ELSE [ok |-> FALSE, est |-> <<>>, std |-> <<>>]
  /\ pc' = "loop"
  /\ UNCHANGED <<params, stream, t, Z_s, S_T, call_val, S_t, Z_pos, anvars>>

\* ---- cell 2: one iteration of the sweep loop -----------------------------
SweepStep ==
  /\ pc = "loop"
  /\ i < SweepPoints
  /\ i' = i + 1
  /\ t' = TimeGrid(months)
  /\ Z_s' = norm_rvs(rng, SampleSize(i'), months)
  /\ rng' = Advance(rng, SampleSize(i'), months)
  /\ drawn' = drawn + SampleSize(i') * months
  /\ Z_pos' = DrawnPositions(rng, SampleSize(i'), months)
  /\ segs' = [segs EXCEPT ![i'] = [from |-> rng.pos, len |-> rng'.pos - rng.pos]]
  /\ IF months = 0
     THEN \* np.amax over an empty axis raises ValueError
          /\ pc' = "error"
          /\ UNCHANGED <<S_T, call_val, call_est, call_std, S_t, nwrites, batchN>>
     ELSE /\ S_t' = PriceMatrix(S_0, r, sigma, Z_s', t')
          /\ S_T' = option_payoff(S_0, r, sigma, Z_s', t', L)
          /\ call_val' = discounted_call_payoff(S_T', K, r, T)
          /\ call_est' = [call_est EXCEPT ![i'] = Some(Mean(call_val'))]
          /\ call_std' = [call_std EXCEPT ![i'] =
                             Some(StdError(call_val', SampleSize(i')))]
          /\ nwrites' = [nwrites EXCEPT ![i'] = @ + 1]
          /\ batchN' = [batchN EXCEPT ![i'] = Len(Z_s')]
          /\ pc' = "loop"
  /\ UNCHANGED <<params, stream, months, runs, prev, anvars>>

\* ---- cell 2: the range is exhausted --------------------------------------
SweepExit ==
  /\ pc = "loop"
  /\ i = SweepPoints
  /\ pc' = "done"
  /\ UNCHANGED <<params, stream, rng, i, months, t, Z_s, S_T, call_val,
                 call_est, call_std, S_t, nwrites, batchN, drawn, Z_pos, segs,
                 runs, prev, anvars>>

\* ---- cell 3: the closed-form price -------------------------------------
AnalyticalCell ==
  /\ pc \in {"done", "error"}
  /\ an_pc = "idle"
  /\ IF AnalyticalRaises(S_0, K, L, T, sigma)
     THEN /\ an_pc' = "error"
          /\ UNCHANGED <<p1, p2, p3, p4, analytical_callprice>>
     ELSE /\ p1' = P1(S_0, K, L, T, sigma, r)
          /\ p2' = P2(S_0, K, L, T, sigma, r)
          /\ p3' = P3(S_0, K, L, T, sigma, r)
          /\ p4' = P4(S_0, K, L, T, sigma, r)
          /\ analytical_callprice' = Some(p1' - p2' - p3' + p4')
          /\ an_pc' = "done"
  /\ UNCHANGED <<params, mcvars>>

Next == RunCell \/ SweepStep \/ SweepExit \/ AnalyticalCell

Spec == Init /\ [][Next]_vars

TypeOK ==
  /\ pc \in {"idle", "loop", "done", "error"}
  /\ an_pc \in {"idle", "done", "error"}
  /\ i \in 0..SweepPoints
  /\ runs \in 0..MaxRuns

\* ---- properties ----------------------------------------------------------
\* a batch has been simulated and reduced (S_t, S_T, call_val belong together)
HaveBatch == S_T # <<>>

\* the slots of the result lists that hold an estimate
SetSlots == {n \in DOMAIN call_est : call_est[n] # None}

\* C1: for every path of a batch, option_payoff yields the terminal value
\* when every monitored price is strictly below L, and 0 otherwise (a
\* maximum equal to L is knocked out).
C1_BarrierPayoff ==
  HaveBatch =>
    /\ Len(S_T) = Len(S_t)
    /\ \A p \in 1..Len(S_T) :
         S_T[p] = IF \A c \in 1..Len(S_t[p]) : S_t[p][c] < L * CENT
                  THEN S_t[p][Len(S_t[p])]
                  ELSE 0

\* a batch with a path whose maximum equals L exactly (knocked out) and a
\* path that stays below L and keeps its terminal value
C1_Witness ==
  /\ HaveBatch
  /\ \E p \in 1..Len(S_T) :
       /\ MaxSeq(S_t[p]) = L * CENT
       /\ S_T[p] = 0
  /\ \E q \in 1..Len(S_T) :
       /\ MaxSeq(S_t[q]) < L * CENT
       /\ S_T[q] = S_t[q][Len(S_t[q])]
       /\ S_T[q] > 0

\* C2: every discounted payoff and every mean estimate is >= 0, and for
\* K > 0 a knocked-out path (conditioned terminal value 0) contributes 0.
C2_NonNegative ==
  /\ \A p \in 1..Len(call_val) : call_val[p] >= 0
  /\ \A n \in SetSlots : call_est[n][1] >= 0
  /\ (K > 0 /\ HaveBatch) =>
       \A p \in 1..Len(call_val) : S_T[p] = 0 => call_val[p] = 0

\* K > 0, a knocked-out path next to a path with a positive payoff
C2_Witness ==
  /\ HaveBatch /\ K > 0
  /\ \E p \in 1..Len(call_val) : S_T[p] = 0 /\ MaxSeq(S_t[p]) >= L * CENT
  /\ \E q \in 1..Len(call_val) : call_val[q] > 0
  /\ \E n \in SetSlots : call_est[n][1] > 0

\* C3: when L <= K every discounted payoff is 0 and every mean is 0.
C3_BarrierBelowStrike ==
  L <= K =>
    /\ \A p \in 1..Len(call_val) : call_val[p] = 0
    /\ \A n \in SetSlots : call_est[n][1] = 0

\* L <= K and a path survives with a positive terminal value below L
C3_Witness ==
  /\ L <= K /\ HaveBatch
  /\ \E p \in 1..Len(S_T) : S_T[p] > 0 /\ S_T[p] < L * CENT
  /\ \E p \in 1..Len(S_T) : S_T[p] = 0
  /\ SetSlots # {}

\* C4: the slots are filled in sweep order, and when the loop has ended
\* every slot holds a mean and a standard error, written once, from a
\* batch of exactly idx * BatchUnit paths.
C4_OnePairPerSize ==
  /\ pc = "loop" =>
       \A n \in 1..SweepPoints :
         /\ (call_est[n] # None) = (n <= i)
         /\ (call_std[n] # None) = (n <= i)
  /\ pc = "done" =>
       /\ Len(call_est) = SweepPoints /\ Len(call_std) = SweepPoints
       /\ \A n \in 1..SweepPoints :
            /\ call_est[n] # None /\ call_std[n] # None
            /\ nwrites[n] = 1
            /\ batchN[n] = n * BatchUnit

\* the loop has ended and the last slot comes from the largest batch
C4_Witness ==
  /\ pc = "done"
  /\ i = SweepPoints
  /\ batchN[SweepPoints] = SweepPoints * BatchUnit
  /\ Len(Z_s) = SweepPoints * BatchUnit
  /\ \E n \in 1..SweepPoints : call_est[n][1] > 0

\* C5: an execution of the simulation that follows a completed one (same
\* parameters, same seed) ends with exactly the same estimates.
C5_Reproducible ==
  (pc = "done" /\ prev.ok) => (call_est = prev.est /\ call_std = prev.std)

\* a second execution has completed, the estimates are not all alike and
\* the generator had been left away from the head of the stream
C5_Witness ==
  /\ pc = "done" /\ prev.ok /\ runs = 2
  /\ rng.pos % StreamPeriod # 0
  /\ \E n, k \in 1..SweepPoints : call_est[n] # call_est[k]
  /\ \E n \in 1..SweepPoints : call_std[n][1] > 0

\* ---- the closed form as printed in the notebook (markdown of cell 3) -----
\* delta_{+/-}(tau, s) = [ln s + (r +/- sigma^2/2) tau] / (sigma sqrt(T))
FormulaDelta(sign, tau, s) ==
  ((Ln(s) + ((r + sign * (((sigma * sigma) \div SCALE) \div 2)) * tau) \div SCALE)
     * SCALE) \div ((sigma * Sqrt(T)) \div SCALE)

\* Phi(delta(T, a)) - Phi(delta(T, b))
FormulaBracket(sign, a, b) ==
  Phi(FormulaDelta(sign, T, a)) - Phi(FormulaDelta(sign, T, b))

FormulaTerm1 ==
  Times(S_0 * CENT, FormulaBracket(1, Ratio(S_0, K), Ratio(S_0, L)))

FormulaTerm2 ==
  Times(Times(K * CENT, FormulaBracket(-1, Ratio(S_0, K), Ratio(S_0, L))),
        Exp(-((r * T) \div SCALE)))

\* -L (S_0/L)^e [...], e = -2r/sigma^2 in the printed formula
FormulaTerm3(e) ==
  Times(Times(L * CENT,
              FormulaBracket(1, Ratio(L * L, K * S_0), Ratio(L, S_0))),
        Pow(Ratio(S_0, L), e))

\* +e^(-rT) K (S_0/L)^e [...], e = -2r/sigma^2 - 1 in the printed formula
FormulaTerm4(e) ==
  Times(Times(Times(K * CENT,
                    FormulaBracket(-1, Ratio(L * L, K * S_0), Ratio(L, S_0))),
              Exp(-((r * T) \div SCALE))),
        Pow(Ratio(S_0, L), e))

PrintedExponent3 == -((2 * r * SCALE) \div ((sigma * sigma) \div SCALE))
PrintedExponent4 == PrintedExponent3 - SCALE

\* any of the parameters is outside its domain
InvalidParameter ==
  \/ sigma <= 0 \/ S_0 <= 0 \/ K <= 0 \/ L <= 0 \/ T <= 0
  \/ \E n \in 1..SweepPoints : n * BatchUnit < 2
  \/ (T * 12) \div SCALE < 1

\* C6 (as claimed): with L <= S_0 the analytical price is exactly 0
\* (stated for parameters that are otherwise valid).
C6_DegenerateBarrier ==
  (~InvalidParameter /\ an_pc = "done" /\ L <= S_0) =>
    analytical_callprice = Some(0)

\* C7 (as claimed): with an invalid parameter no variate is drawn, no
\* estimate is written and no analytical price is produced.
C7_FailFast ==
  InvalidParameter =>
    /\ drawn = 0
    /\ S_t = <<>> /\ S_T = <<>>
    /\ \A n \in DOMAIN call_est : call_est[n] = None /\ call_std[n] = None
    /\ analytical_callprice = None

C9_GridReachesMaturity ==
  (~InvalidParameter /\ pc \in {"loop", "done"} /\ i >= 1) =>
    /\ Len(t) = months
    /\ \A p \in 1..Len(Z_s) : Len(Z_s[p]) = months
    /\ \A c \in 1..Len(t) : t[c] = (c * T) \div months
    /\ t[Len(t)] = T

\* the standard deviation with divisor N - 1
SampleStd(s) ==
  LET mu == SumSeq(s) \div Len(s)
  IN ISqrt(SumSeq([p \in 1..Len(s) |-> (s[p] - mu) * (s[p] - mu)])
            \div (Len(s) - 1))

\* C10 (as claimed): the estimate of a sweep point is the average of its N
\* payoffs and its standard error is their sample standard deviation
\* divided by sqrt(N), N being the number of simulated paths (stated for
\* valid parameters).
C10_MeanAndStdError ==
  (~InvalidParameter /\ pc \in {"loop", "done"} /\ i >= 1) =>
    /\ Len(call_val) = i * BatchUnit
    /\ Len(Z_s) = i * BatchUnit
    /\ call_est[i] = Some(SumSeq(call_val) \div (i * BatchUnit))
    /\ call_std[i] =
         Some((SampleStd(call_val) * SCALE) \div Sqrt(i * BatchUnit * SCALE))

\* the stream positions behind the cells of the last batch
BatchPositions ==
  {Z_pos[p][c] : p \in 1..Len(Z_pos), c \in 1..months}

\* the stream positions of the segment of sweep point n
Segment(n) == segs[n].from .. (segs[n].from + segs[n].len - 1)

\* C11: within a sweep, sweep point n consumes exactly n*BatchUnit*months
\* draws, the stream segments of distinct sweep points do not overlap, and
\* the cells of a batch are filled one to one from the positions of its
\* segment.
C11_FreshDraws ==
  (pc \in {"loop", "done", "error"} /\ i >= 1) =>
    /\ \A n \in 1..i : segs[n].len = n * BatchUnit * months
    /\ \A n, k \in 1..i : n # k => Segment(n) \cap Segment(k) = {}
    /\ Len(Z_s) = i * BatchUnit /\ Len(Z_pos) = Len(Z_s)
    /\ BatchPositions = Segment(i)
    /\ Cardinality(BatchPositions) = i * BatchUnit * months
    /\ \A p \in 1..Len(Z_s) : \A c \in 1..months :
         Z_s[p][c] = stream[Z_pos[p][c] % StreamPeriod]

\* a completed sweep of twelve-month batches: the second segment starts
\* where the first ends, beyond one period of the stream
C11_Witness ==
  /\ pc = "done" /\ months = 12 /\ i >= 2
  /\ segs[1].len = BatchUnit * 12
  /\ segs[2].from = segs[1].from + segs[1].len
  /\ segs[2].from > StreamPeriod
  /\ Cardinality(BatchPositions) = i * BatchUnit * 12

====
